---- MODULE Spec2Model ----
(***************************************************************************)
(* Model of streamlit_app.py: the "Brand Image Browser".                   *)
(*                                                                         *)
(* One run of main() is a sequence of stages (pc).  A DataFrame is a       *)
(* record [isNone, columns, rows]: the set of column names and the         *)
(* sequence of rows in row order.  A row is a record with one field per    *)
(* column the program reads; a field of a column that is not in `columns`  *)
(* holds a fixed filler and is never read.  A missing cell (an empty CSV   *)
(* cell, which pandas reads as NaN) is NaN in a numeric column and NaS in  *)
(* a text column.                                                          *)
(***************************************************************************)
EXTENDS Integers, Sequences, FiniteSets, TLC

VARIABLES
    pc,               \* position of the run
    uploaded_csv,     \* the CSV uploader's value: [isNone, columns, rows]
    uploaded_images,  \* the image uploader's value: sequence of [name, good]
    disk,             \* temporary image directory: path -> file decodes
    df,               \* the joined dataset: [isNone, columns, rows]
    out,              \* widgets written by main itself, in order
    cluster_dist,     \* the distribution table: [shown, columns, rows]
    selected_brand,   \* value of the brand selectbox
    brand_grid,       \* cells written by display_brand_images
    selected_image,   \* value of the image selectbox
    selected_row,     \* [index, v]: the row previewed
    attr_df,          \* [shown, error, missing, table] of display_image_attributes
    cluster_df,       \* rows returned by the cluster-peer lookup
    cluster_grid      \* cells written by display_cluster_images

vars == <<pc, uploaded_csv, uploaded_images, disk, df, out, cluster_dist,
          selected_brand, brand_grid, selected_image, selected_row, attr_df,
          cluster_df, cluster_grid>>

---------------------------------------------------------------------------
(* Bounds of the model *)

MaxRows == 2
MaxUploads == 2
MaxDistRows == 4
MaxPeerRows == 8

(* Program constants *)

BrandHead == 4
ClusterHead == 6

---------------------------------------------------------------------------
(* Values *)

NaN == -1
NaS == "nan"
NoImage == -2
NoBrand == "None"

AdIds == {0, 1}
Pagenames == {"A", "B"}
Clusters == {0, 1}

ImagesPath == "tmp/images"

Min(a, b) == IF a < b THEN a ELSE b
Range(s) == {s[i] : i \in 1..Len(s)}
SeqsUpTo(S, n) == UNION {[1..k -> S] : k \in 0..n}

\* df.head(n)
Head_n(s, n) == SubSeq(s, 1, Min(n, Len(s)))

\* f"{x}.png"
ImageName(x) == (IF x = NaN THEN "nan" ELSE ToString(x)) \o ".png"

\* os.path.join(images_path, name)
PathJoin(dir, name) == dir \o "/" \o name

\* pandas ==: a missing cell equals nothing, itself included
EqNum(a, b) == a # NaN /\ b # NaN /\ a = b
NeNum(a, b) == ~EqNum(a, b)
EqStr(a, b) == a # NaS /\ b # NaS /\ a = b

\* Python truth value of a selectbox value: None and 0 are false
Truthy(x) == x # NoImage /\ x # 0

---------------------------------------------------------------------------
(* DataFrames *)

BlankRow == [ad_id |-> 0, pagename |-> "", cluster |-> 0,
             dominant_background_colour |-> "", logo_present |-> 0, tier |-> 0,
             image_name |-> "", image_path |-> ""]

NoneDf == [isNone |-> TRUE, columns |-> {}, rows |-> <<>>]
NoRow == [index |-> {}, v |-> BlankRow]

\* The rows a CSV with the given columns can hold (all cells filled in)
CsvRows(columns) ==
    {[ad_id |-> a, pagename |-> p, cluster |-> c,
      dominant_background_colour |-> d, logo_present |-> l, tier |-> t,
      image_name |-> "", image_path |-> ""] :
        a \in IF "ad_id" \in columns THEN AdIds ELSE {0},
        p \in IF "pagename" \in columns THEN Pagenames ELSE {""},
        c \in IF "cluster" \in columns THEN Clusters ELSE {0},
        d \in IF "dominant_background_colour" \in columns THEN {"red"} ELSE {""},
        l \in IF "logo_present" \in columns THEN {1} ELSE {0},
        t \in IF "tier" \in columns THEN {1} ELSE {0}}

ColumnChoices ==
    {main \cup extra :
        main \in SUBSET {"ad_id", "pagename", "cluster"},
        extra \in {{"dominant_background_colour", "logo_present", "tier"},
                   {"dominant_background_colour", "logo_present"}}}

Csvs ==
    {NoneDf} \cup
    UNION {{[isNone |-> FALSE, columns |-> cols, rows |-> rs] :
                rs \in SeqsUpTo(CsvRows(cols), MaxRows)} : cols \in ColumnChoices}

UploadNames == {ImageName(a) : a \in AdIds} \cup {"x.png"}
Uploads == SeqsUpTo([name : UploadNames, good : BOOLEAN], MaxUploads)

---------------------------------------------------------------------------
(* process_uploaded_files *)

\* The image directory after the first k uploads are written; a later file
\* of the same name overwrites an earlier one.
DiskAfter(uploads, k) ==
    [p \in {PathJoin(ImagesPath, uploads[i].name) : i \in 1..k} |->
        LET last == CHOOSE i \in 1..k :
                        /\ PathJoin(ImagesPath, uploads[i].name) = p
                        /\ \A j \in (i+1)..k :
                               PathJoin(ImagesPath, uploads[j].name) # p
        IN  uploads[last].good]

\* uploaded_image_names after the loop
UploadedImageNames(uploads) == [i \in 1..Len(uploads) |-> uploads[i].name]

\* As JoinRows, without the isin filter
JoinRows_NoFilter(rows, names) ==
    [i \in 1..Len(rows) |->
        [rows[i] EXCEPT !.image_name = ImageName(rows[i].ad_id),
                        !.image_path = PathJoin(ImagesPath, ImageName(rows[i].ad_id))]]

\* df['image_name'] = ...; df = df[df['image_name'].isin(...)]; df['image_path'] = ...
JoinRows(rows, names) ==
    LET named == [i \in 1..Len(rows) |->
                     [rows[i] EXCEPT !.image_name = ImageName(rows[i].ad_id)]]
        InUploads(r) == r.image_name \in Range(names)
        kept == SelectSeq(named, InUploads)
    IN  [i \in 1..Len(kept) |->
            [kept[i] EXCEPT !.image_path =
                 PathJoin(ImagesPath, ImageName(kept[i].ad_id))]]

\* As process_uploaded_files, without the check of the 'ad_id' column
process_uploaded_files_NoColumnCheck(csv, uploads, fail) ==
    IF fail # 0 THEN
        [df |-> NoneDf, error |-> "Error processing files",
         disk |-> DiskAfter(uploads, fail - 1)]
    ELSE
        [df |-> [isNone |-> FALSE,
                 columns |-> csv.columns \cup {"image_name", "image_path"},
                 rows |-> JoinRows(csv.rows, UploadedImageNames(uploads))],
         error |-> "",
         disk |-> DiskAfter(uploads, Len(uploads))]

\* fail = 0: every write succeeds; fail = k > 0: writing the k-th upload raises.
\* The result is the returned DataFrame, the st.error written (or "") and
\* the image directory left behind.
process_uploaded_files(csv, uploads, fail) ==
    IF fail # 0 THEN
        [df |-> NoneDf, error |-> "Error processing files",
         disk |-> DiskAfter(uploads, fail - 1)]
    ELSE IF "ad_id" \notin csv.columns THEN
        [df |-> NoneDf, error |-> "must contain an 'ad_id' column",
         disk |-> DiskAfter(uploads, Len(uploads))]
    ELSE
        [df |-> [isNone |-> FALSE,
                 columns |-> csv.columns \cup {"image_name", "image_path"},
                 rows |-> JoinRows(csv.rows, UploadedImageNames(uploads))],
         error |-> "",
         disk |-> DiskAfter(uploads, Len(uploads))]

\* Image.open(path) succeeds
ImageOpens(d, path) == path \in DOMAIN d /\ d[path]

---------------------------------------------------------------------------
(* display_brand_images *)

\* One cell per row of brand_df.head(4): the image, or the st.error
\* written in its place.
ImageGrid(d, rows) ==
    [i \in 1..Len(rows) |->
        [image_path |-> rows[i].image_path,
         shown |-> ImageOpens(d, rows[i].image_path)]]

display_brand_images(d, brand_rows) == ImageGrid(d, Head_n(brand_rows, BrandHead))

---------------------------------------------------------------------------
(* display_image_attributes *)

attributes == <<"pagename", "dominant_background_colour", "logo_present",
                "cluster", "tier">>

Field(v, attr) ==
    CASE attr = "pagename" -> <<attr, v.pagename>>
      [] attr = "dominant_background_colour" -> <<attr, v.dominant_background_colour>>
      [] attr = "logo_present" -> <<attr, v.logo_present>>
      [] attr = "cluster" -> <<attr, v.cluster>>
      [] attr = "tier" -> <<attr, v.tier>>

\* As MissingAttrs, stopping at the first missing attribute
MissingAttrs_FirstOnly(index) ==
    LET Absent(a) == a \notin index IN Head_n(SelectSeq(attributes, Absent), 1)

\* missing_attrs = [attr for attr in attributes if attr not in selected_row.index]
MissingAttrs(index) ==
    LET Absent(a) == a \notin index IN SelectSeq(attributes, Absent)

NoAttrDf == [shown |-> FALSE, error |-> FALSE, missing |-> <<>>, table |-> <<>>]

display_image_attributes(row) ==
    LET missing_attrs == MissingAttrs(row.index) IN
    IF missing_attrs # <<>> THEN
        [shown |-> FALSE, error |-> TRUE, missing |-> missing_attrs, table |-> <<>>]
    ELSE
        [shown |-> TRUE, error |-> FALSE, missing |-> <<>>,
         table |-> [i \in 1..Len(attributes) |-> Field(row.v, attributes[i])]]

---------------------------------------------------------------------------
(* display_cluster_images *)

\* As ClusterPeers, without the exclusion of the selected ad_id
ClusterPeers_KeepsSelected(rows, cluster, image) ==
    LET Peer(r) == EqNum(r.cluster, cluster)
    IN  Head_n(SelectSeq(rows, Peer), ClusterHead)

\* df[(df['cluster'] == cluster) & (df['ad_id'] != selected_image)].head(6)
ClusterPeers(rows, cluster, image) ==
    LET Peer(r) == EqNum(r.cluster, cluster) /\ NeNum(r.ad_id, image)
    IN  Head_n(SelectSeq(rows, Peer), ClusterHead)

NoPeers == [shown |-> FALSE, error |-> FALSE, rows |-> <<>>]

display_cluster_images(d, row, image) ==
    IF "cluster" \notin d.columns THEN
        [shown |-> FALSE, error |-> TRUE, rows |-> <<>>]
    ELSE
        [shown |-> TRUE, error |-> FALSE,
         rows |-> ClusterPeers(d.rows, row.v.cluster, image)]

---------------------------------------------------------------------------
(* display_cluster_distribution *)

RECURSIVE SumOver(_, _)
SumOver(f, S) ==
    IF S = {} THEN 0
    ELSE LET c == CHOOSE x \in S : TRUE IN f[c] + SumOver(f, S \ {c})

\* Rows that pd.pivot_table groups: groupby drops a row whose pagename or
\* cluster cell is missing.
Grouped(rows) ==
    {i \in 1..Len(rows) : rows[i].pagename # NaS /\ rows[i].cluster # NaN}

\* aggfunc='count' on values='ad_id': the non-missing ad_id cells of the group
CountAdId(rows, g, c) ==
    Cardinality({i \in Grouped(rows) :
                    /\ rows[i].pagename = g
                    /\ rows[i].cluster = c
                    /\ rows[i].ad_id # NaN})

\* pd.pivot_table(...) followed by cluster_dist['Total'] = cluster_dist.sum(axis=1):
\* one row per group, one count per cluster (0 where the pair has no row).
PivotTable(rows) ==
    LET index == {rows[i].pagename : i \in Grouped(rows)}
        columns == {rows[i].cluster : i \in Grouped(rows)}
    IN  {[pagename |-> g,
          counts |-> [c \in columns |-> CountAdId(rows, g, c)],
          Total |-> SumOver([c \in columns |-> CountAdId(rows, g, c)], columns)] :
            g \in index}

\* cluster_dist.sort_values('Total', ascending=False): every order of the
\* rows with Total descending (the order of equal Totals is not fixed).
SortValues(table) ==
    {s \in [1..Cardinality(table) -> table] :
        /\ \A i, j \in 1..Cardinality(table) : i # j => s[i] # s[j]
        /\ \A i, j \in 1..Cardinality(table) : i < j => s[i].Total >= s[j].Total}

\* f'Cluster {col}' if col != 'Total' else col
ColumnLabel(col) == "Cluster " \o ToString(col)

NoDist == [shown |-> FALSE, error |-> FALSE, columns |-> {}, rows |-> <<>>]

\* The tables display_cluster_distribution can write for the DataFrame d
display_cluster_distribution(d) ==
    IF "cluster" \notin d.columns \/ "pagename" \notin d.columns THEN
        {[shown |-> FALSE, error |-> TRUE, columns |-> {}, rows |-> <<>>]}
    ELSE
        {[shown |-> TRUE, error |-> FALSE,
          columns |-> {ColumnLabel(r.cluster) :
                          r \in {d.rows[i] : i \in Grouped(d.rows)}} \cup {"Total"},
          rows |-> s] : s \in SortValues(PivotTable(d.rows))}

---------------------------------------------------------------------------
(* main *)

\* sorted(df['pagename'].unique()): the options of the brand selectbox
Brands(d) == {d.rows[i].pagename : i \in 1..Len(d.rows)}

\* df[df['pagename'] == selected_brand]
BrandRows(d, brand) ==
    LET OfBrand(r) == EqStr(r.pagename, brand) IN SelectSeq(d.rows, OfBrand)

\* brand_df[brand_df['ad_id'] == selected_image]
ImageRows(rows, image) ==
    LET IsImage(r) == EqNum(r.ad_id, image) IN SelectSeq(rows, IsImage)

Init ==
    /\ pc = "main"
    /\ uploaded_csv \in Csvs
    /\ uploaded_images \in Uploads
    /\ disk = <<>>
    /\ df = NoneDf
    /\ out = <<>>
    /\ cluster_dist = NoDist
    /\ selected_brand = NoBrand
    /\ brand_grid = <<>>
    /\ selected_image = NoImage
    /\ selected_row = NoRow
    /\ attr_df = NoAttrDf
    /\ cluster_df = NoPeers
    /\ cluster_grid = <<>>

\* lines 132-139: title, the two uploaders, the warning when either is empty
Upload ==
    /\ pc = "main"
    /\ IF uploaded_csv.isNone \/ uploaded_images = <<>>
       THEN /\ out' = out \o <<"title", "warning">>
            /\ pc' = "done"
       ELSE /\ out' = out \o <<"title">>
            /\ pc' = "process"
    /\ UNCHANGED <<uploaded_csv, uploaded_images, disk, df, cluster_dist,
                   selected_brand, brand_grid, selected_image, selected_row,
                   attr_df, cluster_df, cluster_grid>>

\* lines 141-143
Process ==
    /\ pc = "process"
    /\ \E fail \in 0..Len(uploaded_images) :
        LET res == process_uploaded_files(uploaded_csv, uploaded_images, fail) IN
        /\ df' = res.df
        /\ disk' = res.disk
        /\ out' = IF res.error = "" THEN out ELSE Append(out, "error: " \o res.error)
        /\ pc' = IF res.df.isNone THEN "done" ELSE "distribution"
    /\ UNCHANGED <<uploaded_csv, uploaded_images, cluster_dist, selected_brand,
                   brand_grid, selected_image, selected_row, attr_df, cluster_df,
                   cluster_grid>>

\* As Distribution, with the run ending when the table cannot be built
Distribution_Aborts ==
    /\ pc = "distribution"
    /\ cluster_dist' \in display_cluster_distribution(df)
    /\ pc' = IF cluster_dist'.error THEN "done" ELSE "brand"
    /\ UNCHANGED <<uploaded_csv, uploaded_images, disk, df, out, selected_brand,
                   brand_grid, selected_image, selected_row, attr_df, cluster_df,
                   cluster_grid>>

\* line 146
Distribution ==
    /\ pc = "distribution"
    /\ cluster_dist' \in display_cluster_distribution(df)
    /\ pc' = "brand"
    /\ UNCHANGED <<uploaded_csv, uploaded_images, disk, df, out, selected_brand,
                   brand_grid, selected_image, selected_row, attr_df, cluster_df,
                   cluster_grid>>

\* lines 148-159: the brand selectbox and the brand grid
Brand ==
    /\ pc = "brand"
    /\ IF "pagename" \notin df.columns
       THEN /\ out' = out \o <<"sidebar header", "error: must contain a 'Brand' column">>
            /\ pc' = "done"
            /\ UNCHANGED <<selected_brand, brand_grid>>
       ELSE /\ selected_brand' \in (IF Brands(df) = {} THEN {NoBrand} ELSE Brands(df))
            /\ brand_grid' = display_brand_images(disk, BrandRows(df, selected_brand'))
            /\ out' = out \o <<"sidebar header", "Images By Brand">>
            /\ pc' = "preview"
    /\ UNCHANGED <<uploaded_csv, uploaded_images, disk, df, cluster_dist,
                   selected_image, selected_row, attr_df, cluster_df, cluster_grid>>

\* lines 161-172: the image selectbox and the preview of the selected image
Preview ==
    /\ pc = "preview"
    /\ LET brand_rows == BrandRows(df, selected_brand)
           options == {brand_rows[i].ad_id : i \in 1..Len(brand_rows)}
       IN
       /\ selected_image' \in (IF options = {} THEN {NoImage} ELSE options)
       /\ IF ~Truthy(selected_image')
          THEN /\ out' = Append(out, "Image Preview")
               /\ pc' = "done"
               /\ UNCHANGED selected_row
          ELSE IF ImageRows(brand_rows, selected_image') = <<>>
          THEN \* .iloc[0] of an empty selection raises: the handler of line 183
               /\ out' = out \o <<"Image Preview", "error: An error occurred">>
               /\ pc' = "done"
               /\ UNCHANGED selected_row
          ELSE /\ selected_row' = [index |-> df.columns,
                                   v |-> ImageRows(brand_rows, selected_image')[1]]
               /\ IF ImageOpens(disk, selected_row'.v.image_path)
                  THEN /\ out' = out \o <<"Image Preview", "image">>
                       /\ pc' = "attributes"
                  ELSE \* Image.open raises: the handler of line 180
                       /\ out' = out \o <<"Image Preview",
                                          "error: Error displaying selected image">>
                       /\ pc' = "done"
    /\ UNCHANGED <<uploaded_csv, uploaded_images, disk, df, cluster_dist,
                   selected_brand, brand_grid, attr_df, cluster_df, cluster_grid>>

\* lines 174-175
Attributes ==
    /\ pc = "attributes"
    /\ attr_df' = display_image_attributes(selected_row)
    /\ out' = Append(out, "Image Attributes")
    /\ pc' = "cluster"
    /\ UNCHANGED <<uploaded_csv, uploaded_images, disk, df, cluster_dist,
                   selected_brand, brand_grid, selected_image, selected_row,
                   cluster_df, cluster_grid>>

\* lines 177-178
ClusterImages ==
    /\ pc = "cluster"
    /\ cluster_df' = display_cluster_images(df, selected_row, selected_image)
    /\ cluster_grid' = ImageGrid(disk, cluster_df'.rows)
    /\ out' = Append(out, "Images in Same Cluster")
    /\ pc' = "done"
    /\ UNCHANGED <<uploaded_csv, uploaded_images, disk, df, cluster_dist,
                   selected_brand, brand_grid, selected_image, selected_row,
                   attr_df>>

Next ==
    \/ Upload
    \/ Process
    \/ Distribution
    \/ Brand
    \/ Preview
    \/ Attributes
    \/ ClusterImages

Spec == Init /\ [][Next]_vars

---------------------------------------------------------------------------
(* display_cluster_distribution on its own: joined datasets with missing   *)
(* cells, as read from a CSV with empty pagename or cluster cells.         *)

JoinedColumns == {"ad_id", "pagename", "cluster", "dominant_background_colour",
                  "logo_present", "tier", "image_name", "image_path"}

JoinedRow(a, p, c) ==
    [ad_id |-> a, pagename |-> p, cluster |-> c,
     dominant_background_colour |-> "red", logo_present |-> 1, tier |-> 1,
     image_name |-> ImageName(a),
     image_path |-> PathJoin(ImagesPath, ImageName(a))]

DistRows ==
    {JoinedRow(a, p, c) :
        a \in {1}, p \in Pagenames \cup {NaS}, c \in Clusters \cup {NaN}}

AllGood(rows) ==
    [p \in {rows[i].image_path : i \in 1..Len(rows)} |-> TRUE]

Blank ==
    /\ uploaded_csv = NoneDf
    /\ uploaded_images = <<>>
    /\ out = <<>>
    /\ cluster_dist = NoDist
    /\ selected_brand = NoBrand
    /\ brand_grid = <<>>
    /\ attr_df = NoAttrDf
    /\ cluster_df = NoPeers
    /\ cluster_grid = <<>>

InitDist ==
    /\ pc = "distribution"
    /\ \E rows \in SeqsUpTo(DistRows, MaxDistRows) :
        /\ df = [isNone |-> FALSE, columns |-> JoinedColumns, rows |-> rows]
        /\ disk = AllGood(rows)
    /\ selected_image = NoImage
    /\ selected_row = NoRow
    /\ Blank

SpecDist == InitDist /\ [][Distribution]_vars

---------------------------------------------------------------------------
(* display_cluster_images on its own: datasets long enough for head(6) to  *)
(* cut, any row of the dataset selected.                                   *)

PeerRows == {JoinedRow(a, "A", c) : a \in {1, 2}, c \in Clusters}

InitPeers ==
    /\ pc = "cluster"
    /\ \E rows \in SeqsUpTo(PeerRows, MaxPeerRows) :
        /\ df = [isNone |-> FALSE, columns |-> JoinedColumns, rows |-> rows]
        /\ disk = AllGood(rows)
        /\ \E r \in Range(rows) :
            /\ selected_row = [index |-> JoinedColumns, v |-> r]
            /\ selected_image = r.ad_id
    /\ Blank

SpecPeers == InitPeers /\ [][ClusterImages]_vars

---------------------------------------------------------------------------
(* display_image_attributes on its own: rows with any subset of the five   *)
(* attribute columns.                                                      *)

AttrRows(index) ==
    {[ad_id |-> 1, pagename |-> p, cluster |-> c,
      dominant_background_colour |-> d, logo_present |-> l, tier |-> t,
      image_name |-> ImageName(1),
      image_path |-> PathJoin(ImagesPath, ImageName(1))] :
        p \in IF "pagename" \in index THEN Pagenames ELSE {""},
        c \in IF "cluster" \in index THEN Clusters ELSE {0},
        d \in IF "dominant_background_colour" \in index THEN {"red", "blue"} ELSE {""},
        l \in IF "logo_present" \in index THEN {0, 1} ELSE {0},
        t \in IF "tier" \in index THEN {1, 2} ELSE {0}}

InitAttrs ==
    /\ pc = "attributes"
    /\ \E some \in SUBSET Range(attributes) :
        LET index == some \cup {"ad_id", "image_name", "image_path"} IN
        \E r \in AttrRows(index) :
            /\ df = [isNone |-> FALSE, columns |-> index, rows |-> <<r>>]
            /\ disk = AllGood(<<r>>)
            /\ selected_row = [index |-> index, v |-> r]
            /\ selected_image = r.ad_id
    /\ Blank

SpecAttrs == InitAttrs /\ [][Attributes]_vars

---------------------------------------------------------------------------
(* Properties *)

Names(uploads) == {uploads[i].name : i \in 1..Len(uploads)}

\* process_uploaded_files has returned in this run
Processed == pc \notin {"main", "process"} /\ "warning" \notin Range(out)

\* The CSV rows whose "{ad_id}.png" is among the uploaded names, by index
C1_Uploaded(a) ==
    \/ a = 0 /\ "0.png" \in Names(uploaded_images)
    \/ a = 1 /\ "1.png" \in Names(uploaded_images)

C1_Kept == {i \in 1..Len(uploaded_csv.rows) : C1_Uploaded(uploaded_csv.rows[i].ad_id)}

C1_Kth(k) == CHOOSE i \in C1_Kept : Cardinality({j \in C1_Kept : j <= i}) = k

\* C1: a dataset returned by process_uploaded_files holds exactly the CSV
\* rows whose "{ad_id}.png" was uploaded, each as often as the CSV has it
\* and in CSV order, and nothing else; a CSV with an ad_id column whose
\* images were all written always yields a dataset and no error, also
\* when some upload matches no row.
C1_JoinExact ==
    Processed =>
        /\ ~df.isNone =>
            /\ "ad_id" \in uploaded_csv.columns
            /\ Len(df.rows) = Cardinality(C1_Kept)
            /\ \A k \in 1..Len(df.rows) :
                   [df.rows[k] EXCEPT !.image_name = "", !.image_path = ""]
                       = uploaded_csv.rows[C1_Kth(k)]
            /\ \A i \in 1..Len(out) : out[i] \notin
                   {"error: Error processing files",
                    "error: must contain an 'ad_id' column"}
        /\ ("ad_id" \in uploaded_csv.columns
             /\ "error: Error processing files" \notin Range(out)) => ~df.isNone

C1_Witness ==
    /\ pc = "done"
    /\ ~df.isNone
    /\ Len(uploaded_csv.rows) = 2
    /\ uploaded_csv.rows[1].ad_id = uploaded_csv.rows[2].ad_id
    /\ Len(df.rows) = 2
    /\ "x.png" \in Names(uploaded_images)

\* C2: with no ad_id column in the CSV, process_uploaded_files writes an
\* error and returns None, and main stops: no distribution table, brand
\* view, preview, attribute table or cluster-peer view is written.
C2_NoAdIdStops ==
    (~uploaded_csv.isNone /\ "ad_id" \notin uploaded_csv.columns) =>
        /\ pc \in {"main", "process", "done"}
        /\ df.isNone
        /\ cluster_dist = NoDist
        /\ selected_brand = NoBrand /\ brand_grid = <<>>
        /\ selected_image = NoImage /\ selected_row = NoRow
        /\ attr_df = NoAttrDf
        /\ cluster_df = NoPeers /\ cluster_grid = <<>>
        /\ (pc = "done" /\ uploaded_images # <<>>) =>
               \/ out = <<"title", "error: must contain an 'ad_id' column">>
               \/ out = <<"title", "error: Error processing files">>

C2_Witness ==
    /\ pc = "done"
    /\ ~uploaded_csv.isNone
    /\ "ad_id" \notin uploaded_csv.columns
    /\ uploaded_csv.rows # <<>>
    /\ out = <<"title", "error: must contain an 'ad_id' column">>

\* C6: a failure writing one uploaded image is reported and the batch goes
\* on: a dataset is still returned.
C6_WriteFailureKeepsBatch ==
    (Processed /\ "ad_id" \in uploaded_csv.columns
        /\ Len(uploaded_images) >= 2 /\ C1_Kept # {}
        /\ "error: Error processing files" \in Range(out)) =>
            /\ ~df.isNone
            /\ Cardinality(DOMAIN disk) >= Cardinality(Names(uploaded_images)) - 1


\* Rows of the joined dataset that belong to the selected brand
RowsOfBrand == {i \in 1..Len(df.rows) : df.rows[i].pagename = selected_brand}

SelectedPath == PathJoin(ImagesPath, ImageName(selected_image))

AttributesWritten == attr_df.shown \/ attr_df.error
PeersWritten == cluster_df.shown \/ cluster_df.error

GridCellsIndependent ==
    /\ (pc \in {"preview", "attributes", "cluster"}) =>
           /\ Len(brand_grid) = Min(BrandHead, Cardinality(RowsOfBrand))
           /\ \A i \in 1..Len(brand_grid) :
                  brand_grid[i].shown = ImageOpens(disk, brand_grid[i].image_path)
    /\ cluster_df.shown =>
           /\ Len(cluster_grid) = Len(cluster_df.rows)
           /\ \A i \in 1..Len(cluster_grid) :
                  cluster_grid[i].shown = ImageOpens(disk, cluster_df.rows[i].image_path)

\* C8: an image that fails to decode is reported on its own and the rest is
\* still written: each grid has a cell for every row it was given, the image
\* in it exactly when the file decodes, and after a decode failure of the
\* selected preview image the attribute table and the cluster-peer view are
\* still written.
C8_DecodeFailureSkipped ==
    /\ GridCellsIndependent
    /\ (pc = "done" /\ "error: Error displaying selected image" \in Range(out)) =>
           AttributesWritten /\ PeersWritten

\* C10: whatever ad_id of the chosen brand is selected (0 included), the
\* preview, the attribute table and the cluster-peer view are computed, for a
\* row of the selected brand with that ad_id.
C10_EverySelectableIdPreviewed ==
    (pc = "done" /\ selected_image # NoImage /\ ImageOpens(disk, SelectedPath)) =>
        /\ "image" \in Range(out)
        /\ selected_row # NoRow
        /\ selected_row.v.ad_id = selected_image
        /\ selected_row.v.pagename = selected_brand
        /\ AttributesWritten /\ PeersWritten


\* The rows display_cluster_images is asked for: same cluster as the selected
\* row, another ad_id than the selected one; by index
C5_Peers ==
    {i \in 1..Len(df.rows) :
        /\ df.rows[i].cluster = selected_row.v.cluster
        /\ df.rows[i].ad_id # selected_image}

C5_Kth(k) == CHOOSE i \in C5_Peers : Cardinality({j \in C5_Peers : j <= i}) = k

\* C5: the cluster-peer lookup returns the first min(6, n) of the n rows
\* that share the selected row's cluster and have another ad_id, in dataset
\* order: never the selected ad_id, never more than 6 rows.
C5_PeersExact ==
    (pc = "done" /\ "cluster" \in df.columns
        /\ "Images in Same Cluster" \in Range(out)) =>
        /\ cluster_df.shown
        /\ Len(cluster_df.rows) = Min(6, Cardinality(C5_Peers))
        /\ \A k \in 1..Len(cluster_df.rows) : cluster_df.rows[k] = df.rows[C5_Kth(k)]
        /\ \A k \in 1..Len(cluster_df.rows) : cluster_df.rows[k].ad_id # selected_image
        /\ Len(cluster_df.rows) <= 6

C5_Witness ==
    /\ pc = "done"
    /\ cluster_df.shown
    /\ Cardinality(C5_Peers) > 6
    /\ Len(cluster_df.rows) = 6
    /\ df.rows[1] = selected_row.v

\* C9: display_image_attributes writes the five (attribute, value) pairs in
\* the fixed order when the row has all five, and otherwise one error that
\* names every missing attribute, and no table.
C9_AttributesOrError ==
    (pc = "cluster") =>
        IF {"pagename", "dominant_background_colour", "logo_present",
            "cluster", "tier"} \subseteq selected_row.index
        THEN attr_df =
                [shown |-> TRUE, error |-> FALSE, missing |-> <<>>,
                 table |-> << <<"pagename", selected_row.v.pagename>>,
                              <<"dominant_background_colour",
                                selected_row.v.dominant_background_colour>>,
                              <<"logo_present", selected_row.v.logo_present>>,
                              <<"cluster", selected_row.v.cluster>>,
                              <<"tier", selected_row.v.tier>> >>]
        ELSE /\ attr_df.error /\ ~attr_df.shown /\ attr_df.table = <<>>
             /\ Range(attr_df.missing) =
                    {"pagename", "dominant_background_colour", "logo_present",
                     "cluster", "tier"} \ selected_row.index
             /\ Len(attr_df.missing) = Cardinality(Range(attr_df.missing))

C9_Witness ==
    /\ pc = "cluster"
    /\ attr_df.error
    /\ attr_df.missing = <<"dominant_background_colour", "tier">>

RECURSIVE SumTotals(_)
SumTotals(rows) ==
    IF rows = <<>> THEN 0 ELSE Head(rows).Total + SumTotals(Tail(rows))

RowSumsAreTotals ==
    \A i \in 1..Len(cluster_dist.rows) :
        SumOver(cluster_dist.rows[i].counts, DOMAIN cluster_dist.rows[i].counts)
            = cluster_dist.rows[i].Total

\* C3: in a distribution table (with at least one row) the cluster counts
\* of a row add up to its Total, and the Totals add up to the number of rows
\* of the dataset.
C3_TotalsCoverDataset ==
    (cluster_dist.shown /\ cluster_dist.rows # <<>>) =>
        /\ RowSumsAreTotals
        /\ SumTotals(cluster_dist.rows) = Len(df.rows)

SortedByTotal ==
    \A i \in 1..(Len(cluster_dist.rows) - 1) :
        cluster_dist.rows[i].Total >= cluster_dist.rows[i + 1].Total

\* C4: a distribution table (with at least one row) is ordered by Total
\* descending and has exactly one row per distinct pagename of the dataset.
C4_SortedOneRowPerPagename ==
    (cluster_dist.shown /\ cluster_dist.rows # <<>>) =>
        /\ SortedByTotal
        /\ {cluster_dist.rows[i].pagename : i \in 1..Len(cluster_dist.rows)}
               = {df.rows[i].pagename : i \in 1..Len(df.rows)} \ {NaS}
        /\ \A i, j \in 1..Len(cluster_dist.rows) :
               cluster_dist.rows[i].pagename = cluster_dist.rows[j].pagename => i = j

\* Rows of the dataset with no missing ad_id, pagename or cluster cell
Complete ==
    {i \in 1..Len(df.rows) :
        /\ df.rows[i].ad_id # NaN
        /\ df.rows[i].pagename # NaS
        /\ df.rows[i].cluster # NaN}

\* What the table does satisfy: it is sorted by Total, each Total is the sum
\* of its row, the Totals add up to the number of complete rows, and a
\* dataset with no missing pagename or cluster cell has one row per pagename.
DistributionOfCompleteRows ==
    cluster_dist.shown =>
        /\ SortedByTotal
        /\ RowSumsAreTotals
        /\ SumTotals(cluster_dist.rows) = Cardinality(Complete)
        /\ Grouped(df.rows) = 1..Len(df.rows) =>
               /\ {cluster_dist.rows[i].pagename : i \in 1..Len(cluster_dist.rows)}
                      = {df.rows[i].pagename : i \in 1..Len(df.rows)}
               /\ Len(cluster_dist.rows)
                      = Cardinality({df.rows[i].pagename : i \in 1..Len(df.rows)})

\* What the preview does satisfy: a selected non-zero ad_id whose file
\* decodes is previewed, with its attributes and peers, from a row of the
\* selected brand with that ad_id.
NonZeroSelectionPreviewed ==
    (pc = "done" /\ Truthy(selected_image) /\ ImageOpens(disk, SelectedPath)) =>
        /\ "image" \in Range(out)
        /\ selected_row # NoRow
        /\ selected_row.v.ad_id = selected_image
        /\ selected_row.v.pagename = selected_brand
        /\ AttributesWritten /\ PeersWritten

====
